---- MODULE Spec2Model ----
(***************************************************************************)
(* SubscriptionAggregator: the subscriptions table, the repository's SQL   *)
(* statements, the service layer and the HTTP handlers.  One action is one *)
(* HTTP request served to completion: handler -> service -> repository ->  *)
(* one SQL statement (each statement is atomic in PostgreSQL).             *)
(***************************************************************************)
EXTENDS Integers, Sequences, FiniteSets, TLC

(* ---------------------------- bounds ---------------------------------- *)

\* at most MaxCalls requests are in handler goroutines at the same time
MaxCalls == 3
\* request prices range over 0..MaxPrice
MaxPrice == 1
\* timestamps range over 0..MaxTime; 2*d is midnight of day d and 2*d + 1 is
\* a later instant of day d
MaxTime == 2

Prices == 0..MaxPrice
Times == 0..MaxTime

(* ------------------------- sample identifiers ------------------------- *)

\* the subscription ids uuid.New() returns or a path names
SubIDs == {"550e8400-e29b-41d4-a716-446655440000",
           "550e8400-e29b-41d4-a716-446655440001"}
\* the owners
UserIDs == {"60601fee-2bf1-4721-ae6f-7636e79a0cba",
            "60601fee-2bf1-4721-ae6f-7636e79a0cbb"}
\* two names that differ only in case
ServiceNames == {"Yandex Plus", "yandex plus"}

(* ------------------------ optional values ----------------------------- *)

\* a Go nil pointer / SQL NULL is the empty sequence, a set value is <<v>>
None == << >>
Some(v) == <<v>>
Opt(S) == {None} \cup {Some(v) : v \in S}

(* ------------------------------ errors -------------------------------- *)

\* an error is its chain of wrapped errors, outermost first; every element
\* is the identity of one error value
NoErr == << >>
ErrNotFound == "model.ErrNotFound"
ErrNoRows == "sql.ErrNoRows"
ErrCheckViolation == "pq.Error 23514 check_violation"
ErrUniqueViolation == "pq.Error 23505 unique_violation"
ErrCanceled == "context.Canceled"

\* fmt.Errorf("...: %w", err)
Wrap(msg, err) == <<msg>> \o err
\* fmt.Errorf without %w: a new error value that wraps nothing
NewError(msg) == <<msg>>
\* errors.Is(err, target): some error of the chain is the target value
ErrorsIs(err, target) == \E i \in DOMAIN err : err[i] = target

(* --------------------------- HTTP statuses ---------------------------- *)

StatusOK == 200
StatusCreated == 201
StatusNoContent == 204
StatusBadRequest == 400
StatusNotFound == 404
StatusInternalServerError == 500

(* ------------------------------ data ---------------------------------- *)

\* model.Subscription as built by the service layer from a request
Subscription(id, name, price, user, start, end) ==
    [ID |-> id, ServiceName |-> name, Price |-> price, UserID |-> user,
     StartDate |-> start, EndDate |-> end]

\* the zero values Go leaves in a field the JSON body does not set: uuid.Nil
\* and time.Time{} (0001-01-01T00:00:00Z, the instant the timestamps are
\* counted from); the zero string is "" and the zero int is 0
ZeroUUID == "00000000-0000-0000-0000-000000000000"
ZeroTime == 0

\* a context.Context as a storage call finds it: Live, or Canceled (the
\* request was cancelled or timed out before the statement took effect);
\* context.Background() is never cancelled
Live == "live"
Canceled == "canceled"
Contexts == {Live, Canceled}
Background == Live

\* sample values of NOW(), the default of the created_at column
FirstInstant == "2025-08-12T10:00:00Z"
Timestamps == {FirstInstant, "2025-08-13T10:00:00Z"}

\* model.SubscriptionFilter: four optional dimensions
Filters ==
    [UserID : Opt(UserIDs), ServiceName : Opt(ServiceNames),
     FromDate : Opt(Times), ToDate : Opt(Times)]

\* a value written to a DATE column keeps its calendar day only; it is read
\* back as midnight of that day
DateOf(t) == t - (t % 2)
DateOfOpt(o) == IF o = None THEN None ELSE Some(DateOf(o[1]))

VARIABLES
    store,   \* the subscriptions table: a function from the ids present to rows
    resp,    \* the response written for the request being served, Idle if none
    gone,    \* history: the ids deleted and not created again since
    proc,    \* the process: main's position, the done channel, server, db handle
    calls,   \* the requests being served by concurrent handler goroutines
    base     \* history: the table before the first statement of these requests

vars == <<store, resp, gone, proc, calls, base>>

(* ------------------- the subscriptions table (SQL) -------------------- *)

\* Row(sub) holds the values of the six columns a statement writes from
\* $1..$6; a row of the table has created_at besides.

\* Row without end_date: the column is left NULL
Row_noEndDate(sub) ==
    [id |-> sub.ID, service_name |-> sub.ServiceName, price |-> sub.Price,
     user_id |-> sub.UserID, start_date |-> DateOf(sub.StartDate),
     end_date |-> None]

\* the six column values written from a record; start_date and end_date
\* are DATE columns
Row(sub) ==
    [id |-> sub.ID, service_name |-> sub.ServiceName, price |-> sub.Price,
     user_id |-> sub.UserID, start_date |-> DateOf(sub.StartDate),
     end_date |-> DateOfOpt(sub.EndDate)]

\* the row INSERT adds: created_at is not in the column list and takes its
\* default NOW()
InsertedRow(sub, now) ==
    [id |-> Row(sub).id, service_name |-> Row(sub).service_name,
     price |-> Row(sub).price, user_id |-> Row(sub).user_id,
     start_date |-> Row(sub).start_date, end_date |-> Row(sub).end_date,
     created_at |-> now]

\* UpdatedRow as a partial update: an empty service_name keeps the old one
UpdatedRow_partial(old, sub) ==
    [old EXCEPT !.service_name = IF Row(sub).service_name = ""
                                 THEN old.service_name
                                 ELSE Row(sub).service_name,
                !.price = Row(sub).price,
                !.user_id = Row(sub).user_id,
                !.start_date = Row(sub).start_date,
                !.end_date = Row(sub).end_date]

\* the row UPDATE ... SET leaves: the five columns of the SET list are
\* replaced, id and created_at are not in it
UpdatedRow(old, sub) ==
    [old EXCEPT !.service_name = Row(sub).service_name,
                !.price = Row(sub).price,
                !.user_id = Row(sub).user_id,
                !.start_date = Row(sub).start_date,
                !.end_date = Row(sub).end_date]

\* rows.Scan / row.Scan into a model.Subscription
Scan(row) ==
    Subscription(row.id, row.service_name, row.price, row.user_id,
                 row.start_date, row.end_date)

\* CheckPrice admitting 0
CheckPrice_nonNegative(price) == price >= 0

\* CHECK (price > 0)
CheckPrice(price) == price > 0

\* the rows of a table value
RowsOf(db) == {db[i] : i \in DOMAIN db}

RECURSIVE SumPrice(_)
\* SUM(price) over a set of rows (rows differ in id), 0 for no rows
SumPrice(rows) ==
    IF rows = {} THEN 0
    ELSE LET r == CHOOSE x \in rows : TRUE
         IN r.price + SumPrice(rows \ {r})

(* --------------------------- repository ------------------------------- *)

\* ExecContext / QueryContext / QueryRowContext with a cancelled context: the
\* statement is aborted with no effect and the call returns the context's error
Aborted(ctx) == ctx = Canceled

\* RepoCreate without the primary key: the row of an id already present is
\* replaced
RepoCreate_noPrimaryKey(ctx, db, sub, now) ==
    IF Aborted(ctx)
    THEN [db |-> db,
          err |-> Wrap("repository.postgresql.Create", <<ErrCanceled>>)]
    ELSE IF ~CheckPrice(sub.Price)
    THEN [db |-> db,
          err |-> Wrap("repository.postgresql.Create", <<ErrCheckViolation>>)]
    ELSE [db |-> [i \in DOMAIN db \cup {sub.ID} |->
                    IF i = sub.ID THEN InsertedRow(sub, now) ELSE db[i]],
          err |-> NoErr]

\* INSERT INTO subscriptions ...: the CHECK constraint, then the primary key
RepoCreate(ctx, db, sub, now) ==
    IF Aborted(ctx)
    THEN [db |-> db,
          err |-> Wrap("repository.postgresql.Create", <<ErrCanceled>>)]
    ELSE IF ~CheckPrice(sub.Price)
    THEN [db |-> db,
          err |-> Wrap("repository.postgresql.Create", <<ErrCheckViolation>>)]
    ELSE IF sub.ID \in DOMAIN db
    THEN [db |-> db,
          err |-> Wrap("repository.postgresql.Create", <<ErrUniqueViolation>>)]
    ELSE [db |-> [i \in DOMAIN db \cup {sub.ID} |->
                    IF i = sub.ID THEN InsertedRow(sub, now) ELSE db[i]],
          err |-> NoErr]

\* SELECT ... WHERE id = $1, QueryRowContext(...).Scan
RepoGetByID(ctx, db, id) ==
    IF Aborted(ctx)
    THEN [sub |-> None,
          err |-> Wrap("repository.postgresql.GetByID", <<ErrCanceled>>)]
    ELSE IF id \in DOMAIN db
    THEN [sub |-> Some(Scan(db[id])), err |-> NoErr]
    ELSE [sub |-> None,
          err |-> Wrap("repository.postgresql.GetByID", <<ErrNoRows>>)]

\* RepoUpdate as an upsert: an absent id is inserted
RepoUpdate_upsert(ctx, db, sub) ==
    IF Aborted(ctx)
    THEN [db |-> db,
          err |-> Wrap("repository.postgresql.Update", <<ErrCanceled>>)]
    ELSE IF ~CheckPrice(sub.Price)
    THEN [db |-> db,
          err |-> Wrap("repository.postgresql.Update", <<ErrCheckViolation>>)]
    ELSE [db |-> [i \in DOMAIN db \cup {sub.ID} |->
                    IF i = sub.ID
                    THEN [id |-> sub.ID, service_name |-> sub.ServiceName,
                          price |-> sub.Price, user_id |-> sub.UserID,
                          start_date |-> DateOf(sub.StartDate),
                          end_date |-> DateOfOpt(sub.EndDate),
                          created_at |-> FirstInstant]
                    ELSE db[i]],
          err |-> NoErr]

\* UPDATE subscriptions SET ... WHERE id = $1, then RowsAffected
RepoUpdate(ctx, db, sub) ==
    IF Aborted(ctx)
    THEN [db |-> db,
          err |-> Wrap("repository.postgresql.Update", <<ErrCanceled>>)]
    ELSE IF sub.ID \notin DOMAIN db
    THEN [db |-> db, err |-> NewError("not found")]
    ELSE IF ~CheckPrice(sub.Price)
    THEN [db |-> db,
          err |-> Wrap("repository.postgresql.Update", <<ErrCheckViolation>>)]
    ELSE [db |-> [db EXCEPT ![sub.ID] = UpdatedRow(db[sub.ID], sub)],
          err |-> NoErr]

\* DELETE FROM subscriptions WHERE id = $1, then RowsAffected
\* RepoDelete with no WHERE clause: every row is deleted
RepoDelete_noWhere(ctx, db, id) ==
    IF Aborted(ctx)
    THEN [db |-> db,
          err |-> Wrap("repository.postgresql.Delete: failed to delete subscription",
                       <<ErrCanceled>>)]
    ELSE IF DOMAIN db = {}
    THEN [db |-> db,
          err |-> NewError("repository.postgresql.Delete, subscription not found")]
    ELSE [db |-> [i \in {} |-> db[i]], err |-> NoErr]

RepoDelete(ctx, db, id) ==
    IF Aborted(ctx)
    THEN [db |-> db,
          err |-> Wrap("repository.postgresql.Delete: failed to delete subscription",
                       <<ErrCanceled>>)]
    ELSE IF id \notin DOMAIN db
    THEN [db |-> db,
          err |-> NewError("repository.postgresql.Delete, subscription not found")]
    ELSE [db |-> [i \in DOMAIN db \ {id} |-> db[i]], err |-> NoErr]

\* ListWhere with "$1::uuid IS NULL OR" dropped: an unset owner matches no row
ListWhere_ownerRequired(row, filter) ==
    /\ (filter.UserID # None /\ row.user_id = filter.UserID[1])
    /\ (filter.ServiceName = None \/ row.service_name = filter.ServiceName[1])
    /\ (filter.FromDate = None \/ row.start_date >= filter.FromDate[1])
    /\ (filter.ToDate = None
          \/ (row.end_date = None \/ row.end_date[1] <= filter.ToDate[1]))

\* ListWhere with the range-end comparison turned round: a closed row passes
\* when it ends on or after to_date
ListWhere_endsAfter(row, filter) ==
    /\ (filter.UserID = None \/ row.user_id = filter.UserID[1])
    /\ (filter.ServiceName = None \/ row.service_name = filter.ServiceName[1])
    /\ (filter.FromDate = None \/ row.start_date >= filter.FromDate[1])
    /\ (filter.ToDate = None
          \/ (row.end_date = None \/ row.end_date[1] >= filter.ToDate[1]))

\* ListWhere with the range-start comparison strict
ListWhere_strictFrom(row, filter) ==
    /\ (filter.UserID = None \/ row.user_id = filter.UserID[1])
    /\ (filter.ServiceName = None \/ row.service_name = filter.ServiceName[1])
    /\ (filter.FromDate = None \/ row.start_date > filter.FromDate[1])
    /\ (filter.ToDate = None
          \/ (row.end_date = None \/ row.end_date[1] <= filter.ToDate[1]))

\* ListWhere without "end_date IS NULL OR": a NULL end_date fails the comparison
ListWhere_noOpen(row, filter) ==
    /\ (filter.UserID = None \/ row.user_id = filter.UserID[1])
    /\ (filter.ServiceName = None \/ row.service_name = filter.ServiceName[1])
    /\ (filter.FromDate = None \/ row.start_date >= filter.FromDate[1])
    /\ (filter.ToDate = None
          \/ (row.end_date # None /\ row.end_date[1] <= filter.ToDate[1]))

\* the WHERE clause of List
ListWhere(row, filter) ==
    /\ (filter.UserID = None \/ row.user_id = filter.UserID[1])
    /\ (filter.ServiceName = None \/ row.service_name = filter.ServiceName[1])
    /\ (filter.FromDate = None \/ row.start_date >= filter.FromDate[1])
    /\ (filter.ToDate = None
          \/ (row.end_date = None \/ row.end_date[1] <= filter.ToDate[1]))

\* a Go slice of records: its elements (the order is not modelled) and whether
\* it is the nil slice; `var subscriptions []*model.Subscription` is nil
NilSlice == [elems |-> {}, isNil |-> TRUE]
\* append(slice, x) is never nil
append(slice, x) == [elems |-> slice.elems \cup {x}, isNil |-> FALSE]

RECURSIVE ScanRows(_, _)
\* for rows.Next() { rows.Scan(...); subscriptions = append(subscriptions, &sub) }
ScanRows(rows, slice) ==
    IF rows = {} THEN slice
    ELSE LET r == CHOOSE x \in rows : TRUE
         IN ScanRows(rows \ {r}, append(slice, Scan(r)))

\* SELECT ... FROM subscriptions WHERE ...: the scanned rows
RepoList(ctx, db, filter) ==
    IF Aborted(ctx)
    THEN [subs |-> {}, isNil |-> TRUE,
          err |-> Wrap("repository.postgresql.List", <<ErrCanceled>>)]
    ELSE LET slice == ScanRows({r \in RowsOf(db) : ListWhere(r, filter)}, NilSlice)
    IN [subs |-> slice.elems, isNil |-> slice.isNil, err |-> NoErr]

\* TotalCostWhere without the service_name clause
TotalCostWhere_noService(row, filter) ==
    /\ (filter.UserID = None \/ row.user_id = filter.UserID[1])
    /\ (filter.FromDate = None \/ row.start_date >= filter.FromDate[1])
    /\ (filter.ToDate = None
          \/ (row.end_date = None \/ row.end_date[1] <= filter.ToDate[1]))

\* TotalCostWhere with "AND end_date IS NULL" added: open rows only
TotalCostWhere_openOnly(row, filter) ==
    /\ (filter.UserID = None \/ row.user_id = filter.UserID[1])
    /\ (filter.ServiceName = None \/ row.service_name = filter.ServiceName[1])
    /\ (filter.FromDate = None \/ row.start_date >= filter.FromDate[1])
    /\ (filter.ToDate = None
          \/ (row.end_date = None \/ row.end_date[1] <= filter.ToDate[1]))
    /\ row.end_date = None

\* the WHERE clause of GetTotalCost
TotalCostWhere(row, filter) ==
    /\ (filter.UserID = None \/ row.user_id = filter.UserID[1])
    /\ (filter.ServiceName = None \/ row.service_name = filter.ServiceName[1])
    /\ (filter.FromDate = None \/ row.start_date >= filter.FromDate[1])
    /\ (filter.ToDate = None
          \/ (row.end_date = None \/ row.end_date[1] <= filter.ToDate[1]))

\* RepoGetTotalCost without COALESCE: SUM over no rows is NULL and Scan into
\* an int fails
RepoGetTotalCost_noCoalesce(ctx, db, filter) ==
    IF Aborted(ctx)
    THEN [total |-> 0,
          err |-> Wrap("repository.postgresql.GetTotalCost", <<ErrCanceled>>)]
    ELSE IF {r \in RowsOf(db) : TotalCostWhere(r, filter)} = {}
    THEN [total |-> 0,
          err |-> Wrap("repository.postgresql.GetTotalCost",
                       <<"sql: Scan error: converting NULL to int is unsupported">>)]
    ELSE [total |-> SumPrice({r \in RowsOf(db) : TotalCostWhere(r, filter)}),
          err |-> NoErr]

\* SELECT COALESCE(SUM(price), 0) FROM subscriptions WHERE ...
RepoGetTotalCost(ctx, db, filter) ==
    IF Aborted(ctx)
    THEN [total |-> 0,
          err |-> Wrap("repository.postgresql.GetTotalCost", <<ErrCanceled>>)]
    ELSE [total |-> SumPrice({r \in RowsOf(db) : TotalCostWhere(r, filter)}),
     err |-> NoErr]

(* ----------------------------- service -------------------------------- *)

\* CreateSubscription: id is the value uuid.New() returned, now the value of
\* NOW() in the store when the INSERT runs
SvcCreateSubscription(ctx, db, id, now, req) ==
    LET sub == Subscription(id, req.ServiceName, req.Price, req.UserID,
                            req.StartDate, req.EndDate)
        r == RepoCreate(ctx, db, sub, now)
    IN IF r.err # NoErr
       THEN [db |-> r.db, sub |-> None,
             err |-> Wrap("failed to create subscription", r.err)]
       ELSE [db |-> r.db, sub |-> Some(sub), err |-> NoErr]

\* UpdateSubscription: the record is built from req, its ID included
SvcUpdateSubscription(ctx, db, req) ==
    LET sub == Subscription(req.ID, req.ServiceName, req.Price, req.UserID,
                            req.StartDate, req.EndDate)
        r == RepoUpdate(ctx, db, sub)
    IN IF r.err # NoErr
       THEN [db |-> r.db, sub |-> None,
             err |-> Wrap("failed to update subscription", r.err)]
       ELSE [db |-> r.db, sub |-> Some(sub), err |-> NoErr]

\* GetSubscription answering a store error with a new error that wraps nothing
SvcGetSubscription_newError(ctx, db, id) ==
    LET r == RepoGetByID(ctx, db, id)
    IN IF r.err # NoErr
       THEN [sub |-> None, err |-> NewError("failed to get subscription")]
       ELSE [sub |-> r.sub, err |-> NoErr]

SvcGetSubscription(ctx, db, id) ==
    LET r == RepoGetByID(ctx, db, id)
    IN IF r.err # NoErr
       THEN [sub |-> None, err |-> Wrap("failed to get subscription", r.err)]
       ELSE [sub |-> r.sub, err |-> NoErr]

\* DeleteSubscription calling the store with context.Background() instead of
\* the context it was given
SvcDeleteSubscription_detached(ctx, db, id) ==
    LET r == RepoDelete(Background, db, id)
    IN IF r.err # NoErr
       THEN [db |-> r.db, err |-> Wrap("failed to delete subscription", r.err)]
       ELSE [db |-> r.db, err |-> NoErr]

SvcDeleteSubscription(ctx, db, id) ==
    LET r == RepoDelete(ctx, db, id)
    IN IF r.err # NoErr
       THEN [db |-> r.db, err |-> Wrap("failed to delete subscription", r.err)]
       ELSE [db |-> r.db, err |-> NoErr]

SvcListSubscriptions(ctx, db, filter) ==
    LET r == RepoList(ctx, db, filter)
    IN IF r.err # NoErr
       THEN [subs |-> {}, isNil |-> TRUE,
             err |-> Wrap("failed to list subscriptions", r.err)]
       ELSE [subs |-> r.subs, isNil |-> r.isNil, err |-> NoErr]

SvcGetTotalCost(ctx, db, filter) ==
    LET r == RepoGetTotalCost(ctx, db, filter)
    IN IF r.err # NoErr
       THEN [total |-> 0, err |-> Wrap("failed to calculate total cost", r.err)]
       ELSE [total |-> r.total, err |-> NoErr]

(* ------------------------- request parsing ---------------------------- *)

\* a text uuid.Parse rejects
MalformedID == "invalid"
\* the {id} segment of a path
PathTexts == SubIDs \cup {MalformedID}
\* the user_id value of a query; "" when the parameter is missing
UserTexts == {""} \cup UserIDs \cup {MalformedID}
\* the from_date / to_date value of a query: <<t>> is the RFC3339 text of t,
\* <<-1>> is a text time.Parse rejects, << >> is "" or missing
TimeTexts == {<< >>} \cup {<<t>> : t \in (-1)..MaxTime}
\* the service_name value of a query
NameTexts == {""} \cup ServiceNames

\* UUIDParse accepting every text
UUIDParse_lenient(text) == [id |-> text, ok |-> TRUE]

\* uuid.Parse
UUIDParse(text) ==
    IF text \in SubIDs \cup UserIDs
    THEN [id |-> text, ok |-> TRUE]
    ELSE [id |-> "", ok |-> FALSE]

\* a JSON object of a request body: None is a key the object does not have.
\* FullObjects have every key of the request (end_date optional) and no other;
\* SparseObjects have at most "price" of them and may carry an "id" key
FullObjects ==
    [id : {None}, service_name : {Some(n) : n \in ServiceNames},
     price : {Some(p) : p \in Prices}, user_id : {Some(u) : u \in UserIDs},
     start_date : {Some(t) : t \in Times}, end_date : Opt(Times)]
SparseObjects ==
    [id : Opt(SubIDs), service_name : {None}, price : Opt(Prices),
     user_id : {None}, start_date : {None}, end_date : {None}]
JSONObjects == FullObjects \cup SparseObjects

\* a request body: None is a body json.Decode rejects
Bodies == Opt(JSONObjects)

\* json.NewDecoder(r.Body).Decode(&req) into a CreateSubscriptionRequest: a
\* key the struct has no field for ("id") is skipped, a field without its key
\* keeps its zero value
Decode(obj) ==
    [ServiceName |-> IF obj.service_name = None THEN "" ELSE obj.service_name[1],
     Price |-> IF obj.price = None THEN 0 ELSE obj.price[1],
     UserID |-> IF obj.user_id = None THEN ZeroUUID ELSE obj.user_id[1],
     StartDate |-> IF obj.start_date = None THEN ZeroTime ELSE obj.start_date[1],
     EndDate |-> obj.end_date]

\* Decode into an UpdateSubscriptionRequest: ID is tagged json:"-", so it is
\* never read from the body and stays uuid.Nil
DecodeUpdate(obj) ==
    [ID |-> ZeroUUID, ServiceName |-> Decode(obj).ServiceName,
     Price |-> Decode(obj).Price, UserID |-> Decode(obj).UserID,
     StartDate |-> Decode(obj).StartDate, EndDate |-> Decode(obj).EndDate]

\* SetID leaving req.ID as decoded
SetID_missing(req, id) == req

\* req.ID = id
SetID(req, id) == [req EXCEPT !.ID = id]

getUUIDQueryParam(val) ==
    IF val = "" THEN None
    ELSE IF ~UUIDParse(val).ok THEN None
    ELSE Some(UUIDParse(val).id)

getStringQueryParam(val) == IF val = "" THEN None ELSE Some(val)

getTimeQueryParam(val) ==
    IF val = << >> THEN None
    ELSE IF val[1] < 0 THEN None
    ELSE Some(val[1])

\* the query string of GET /subscriptions and GET /subscriptions/total
Queries ==
    [user_id : UserTexts, service_name : NameTexts,
     from_date : TimeTexts, to_date : TimeTexts]

QueryFilter(q) ==
    [UserID |-> getUUIDQueryParam(q.user_id),
     ServiceName |-> getStringQueryParam(q.service_name),
     FromDate |-> getTimeQueryParam(q.from_date),
     ToDate |-> getTimeQueryParam(q.to_date)]

(* ----------------------------- handlers ------------------------------- *)

\* what a handler wrote for a request: op, id, price and filter name the
\* request (the parsed path id or, for a create, the id uuid.New() returned;
\* the price of the decoded body; the filter built from the query), then the
\* status and the body: a record (sub), a list (subs), a total or an error
\* message; null says that the body is the JSON text null
Response(op, id, price, filter, status, sub, subs, total, error) ==
    [op |-> op, id |-> id, price |-> price, filter |-> filter,
     status |-> status, sub |-> sub, subs |-> subs, total |-> total,
     error |-> error, null |-> FALSE]

\* json.NewEncoder(w).Encode(payload) of a slice: the text is null for the nil
\* slice and an array otherwise; null records which
respondWithList(response, isNil) == [response EXCEPT !.null = isNil]

respondWithError(op, id, price, filter, code, message) ==
    Response(op, id, price, filter, code, None, {}, 0, message)

\* no request is being served
Idle == Response("none", None, None, None, 0, None, {}, 0, NoErr)

EmptyTable == [i \in {} |-> None]

\* the process as main leaves it at line 92: the database handle open, the
\* server listening, main waiting on the empty done channel, no signal so far;
\* signal holds the server's state when a termination signal was delivered
Process(pc, srv, db) ==
    [pc |-> pc, done |-> << >>, srv |-> srv, db |-> db, signal |-> None]

Waiting == Process("wait", "listening", "open")

\* no request is in a handler goroutine
NoCalls == << >>

Init ==
    /\ store = EmptyTable
    /\ resp = Idle
    /\ gone = {}
    /\ proc = Waiting
    /\ calls = NoCalls
    /\ base = EmptyTable

\* POST /subscriptions; newID is the value uuid.New() returns, now the
\* value of NOW() in the store
CreateSubscription(ctx, body, newID, now) ==
    /\ IF body = None
       THEN /\ resp' = respondWithError("create", None, None, None, StatusBadRequest,
                                        <<"invalid request payload">>)
            /\ UNCHANGED <<store, gone>>
       ELSE LET req == Decode(body[1])
                r == SvcCreateSubscription(ctx, store, newID, now, req)
                price == Some(req.Price)
            IN /\ store' = r.db
               /\ gone' = IF r.err = NoErr THEN gone \ {newID} ELSE gone
               /\ resp' = IF r.err # NoErr
                          THEN respondWithError("create", Some(newID), price,
                                   None, StatusInternalServerError, r.err)
                          ELSE Response("create", Some(newID), price, None,
                                        StatusCreated, r.sub, {}, 0, NoErr)

\* GET /subscriptions/{id}
GetSubscription(ctx, path) ==
    LET p == UUIDParse(path)
    IN /\ UNCHANGED <<store, gone>>
       /\ IF ~p.ok
          THEN resp' = respondWithError("get", None, None, None, StatusBadRequest,
                                        <<"invalid subscription ID">>)
          ELSE LET r == SvcGetSubscription(ctx, store, p.id)
               IN resp' =
                    IF r.err # NoErr
                    THEN IF ErrorsIs(r.err, ErrNotFound)
                         THEN respondWithError("get", Some(p.id), None, None,
                                  StatusNotFound, <<"subscription not found">>)
                         ELSE respondWithError("get", Some(p.id), None, None,
                                  StatusInternalServerError, r.err)
                    ELSE Response("get", Some(p.id), None, None, StatusOK, r.sub, {},
                                  0, NoErr)

\* PUT /subscriptions/{id}
UpdateSubscription(ctx, path, body) ==
    LET p == UUIDParse(path)
    IN /\ UNCHANGED gone
       /\ IF ~p.ok
          THEN /\ resp' = respondWithError("update", None, None, None, StatusBadRequest,
                                           <<"invalid subscription ID">>)
               /\ UNCHANGED store
          ELSE IF body = None
          THEN /\ resp' = respondWithError("update", Some(p.id), None, None,
                              StatusBadRequest, <<"invalid request payload">>)
               /\ UNCHANGED store
          ELSE LET req == SetID(DecodeUpdate(body[1]), p.id)
                   r == SvcUpdateSubscription(ctx, store, req)
                   price == Some(req.Price)
               IN /\ store' = r.db
                  /\ resp' =
                       IF r.err # NoErr
                       THEN IF ErrorsIs(r.err, ErrNotFound)
                            THEN respondWithError("update", Some(p.id), price, None,
                                     StatusNotFound, <<"subscription not found">>)
                            ELSE respondWithError("update", Some(p.id), price, None,
                                     StatusInternalServerError, r.err)
                       ELSE Response("update", Some(p.id), price, None, StatusOK,
                                     r.sub, {}, 0, NoErr)

\* DELETE /subscriptions/{id}
DeleteSubscription(ctx, path) ==
    LET p == UUIDParse(path)
    IN /\ IF ~p.ok
          THEN /\ resp' = respondWithError("delete", None, None, None, StatusBadRequest,
                                           <<"invalid subscription ID">>)
               /\ UNCHANGED <<store, gone>>
          ELSE LET r == SvcDeleteSubscription(ctx, store, p.id)
               IN /\ store' = r.db
                  /\ gone' = IF r.err = NoErr THEN gone \cup {p.id} ELSE gone
                  /\ resp' =
                       IF r.err # NoErr
                       THEN IF ErrorsIs(r.err, ErrNotFound)
                            THEN respondWithError("delete", Some(p.id), None, None,
                                     StatusNotFound, <<"subscription not found">>)
                            ELSE respondWithError("delete", Some(p.id), None, None,
                                     StatusInternalServerError, r.err)
                       ELSE Response("delete", Some(p.id), None, None, StatusNoContent,
                                     None, {}, 0, NoErr)

\* GET /subscriptions
ListSubscriptions(ctx, query) ==
    LET filter == QueryFilter(query)
        r == SvcListSubscriptions(ctx, store, filter)
    IN /\ UNCHANGED <<store, gone>>
       /\ resp' = IF r.err # NoErr
                  THEN respondWithError("list", None, None, Some(filter),
                                        StatusInternalServerError, r.err)
                  ELSE respondWithList(
                           Response("list", None, None, Some(filter), StatusOK,
                                    None, r.subs, 0, NoErr), r.isNil)

\* GET /subscriptions/total
GetTotalCost(ctx, query) ==
    LET filter == QueryFilter(query)
        r == SvcGetTotalCost(ctx, store, filter)
    IN /\ UNCHANGED <<store, gone>>
       /\ resp' = IF r.err # NoErr
                  THEN respondWithError("total", None, None, Some(filter),
                                        StatusInternalServerError, r.err)
                  ELSE Response("total", None, None, Some(filter), StatusOK,
                                None, {}, r.total, NoErr)

\* the handler returns after respondWithJSON: the request is over
Finish ==
    /\ resp # Idle
    /\ resp' = Idle
    /\ UNCHANGED <<store, gone, proc, calls, base>>

\* The routes RegisterRoutes registers.  Requests are served one after
\* another: a handler starts when no response is being written.
POST_subscriptions ==
    /\ resp = Idle
    /\ UNCHANGED <<proc, calls, base>>
    /\ \E body \in Bodies, newID \in SubIDs :
         CreateSubscription(Live, body, newID, FirstInstant)

GET_subscriptions_total ==
    /\ resp = Idle
    /\ UNCHANGED <<proc, calls, base>>
    /\ \E query \in Queries : GetTotalCost(Live, query)

GET_subscriptions_id ==
    /\ resp = Idle
    /\ UNCHANGED <<proc, calls, base>>
    /\ \E path \in PathTexts : GetSubscription(Live, path)

PUT_subscriptions_id ==
    /\ resp = Idle
    /\ UNCHANGED <<proc, calls, base>>
    /\ \E path \in PathTexts, body \in Bodies : UpdateSubscription(Live, path, body)

DELETE_subscriptions_id ==
    /\ resp = Idle
    /\ UNCHANGED <<proc, calls, base>>
    /\ \E path \in PathTexts : DeleteSubscription(Live, path)

GET_subscriptions ==
    /\ resp = Idle
    /\ UNCHANGED <<proc, calls, base>>
    /\ \E query \in Queries : ListSubscriptions(Live, query)

Next ==
    \/ POST_subscriptions
    \/ GET_subscriptions_total
    \/ GET_subscriptions_id
    \/ PUT_subscriptions_id
    \/ DELETE_subscriptions_id
    \/ GET_subscriptions
    \/ Finish

Spec == Init /\ [][Next]_vars

\* The same server with NOW() sampled at both instants: records are created
\* from sparse bodies and replaced by PUT with the sparse bodies and the full
\* bodies of one owner; no list or total request is made.
OneOwnerObjects ==
    {obj \in FullObjects : obj.user_id = Some("60601fee-2bf1-4721-ae6f-7636e79a0cba")}

POST_subscriptions_now ==
    /\ resp = Idle
    /\ UNCHANGED <<proc, calls, base>>
    /\ \E body \in Opt(SparseObjects), newID \in SubIDs, now \in Timestamps :
         CreateSubscription(Live, body, newID, now)

PUT_subscriptions_id_now ==
    /\ resp = Idle
    /\ UNCHANGED <<proc, calls, base>>
    /\ \E path \in PathTexts, body \in Opt(SparseObjects \cup OneOwnerObjects) :
         UpdateSubscription(Live, path, body)

NextNow ==
    \/ POST_subscriptions_now
    \/ GET_subscriptions_id
    \/ PUT_subscriptions_id_now
    \/ DELETE_subscriptions_id
    \/ Finish

SpecNow == Init /\ [][NextNow]_vars

(* --------------------------- the mux router --------------------------- *)

\* the segment a gorilla/mux pattern variable stands for, and the literal
\* segment of the total-cost route
IdVariable == "{id}"
TotalSegment == "total"

Route(path, handler, method) == [path |-> path, handler |-> handler, method |-> method]

\* RegisterRoutes with the {id} routes registered before /subscriptions/total
RegisterRoutes_idFirst ==
    << Route(<<"subscriptions">>, "CreateSubscription", "POST"),
       Route(<<"subscriptions", IdVariable>>, "GetSubscription", "GET"),
       Route(<<"subscriptions", IdVariable>>, "UpdateSubscription", "PUT"),
       Route(<<"subscriptions", IdVariable>>, "DeleteSubscription", "DELETE"),
       Route(<<"subscriptions", TotalSegment>>, "GetTotalCost", "GET"),
       Route(<<"subscriptions">>, "ListSubscriptions", "GET") >>

\* the routes in the order RegisterRoutes adds them to the router
RegisterRoutes ==
    << Route(<<"subscriptions">>, "CreateSubscription", "POST"),
       Route(<<"subscriptions", TotalSegment>>, "GetTotalCost", "GET"),
       Route(<<"subscriptions", IdVariable>>, "GetSubscription", "GET"),
       Route(<<"subscriptions", IdVariable>>, "UpdateSubscription", "PUT"),
       Route(<<"subscriptions", IdVariable>>, "DeleteSubscription", "DELETE"),
       Route(<<"subscriptions">>, "ListSubscriptions", "GET") >>

\* a route matches a request when the method is the route's and every segment
\* is the route's literal segment or stands for the route's variable
RouteMatches(route, method, path) ==
    /\ route.method = method
    /\ Len(route.path) = Len(path)
    /\ \A i \in 1..Len(path) : route.path[i] \in {IdVariable, path[i]}

\* mux.Router.Match: the routes are tried in the order of registration and the
\* first one that matches serves the request; None when no route matches
Match(routes, method, path) ==
    LET hits == {i \in DOMAIN routes : RouteMatches(routes[i], method, path)}
    IN IF hits = {}
       THEN None
       ELSE Some(routes[CHOOSE i \in hits : \A j \in hits : i <= j].handler)

\* request paths: /subscriptions and /subscriptions/<segment>
Segments == PathTexts \cup {TotalSegment}
HTTPPaths == {<<"subscriptions">>} \cup {<<"subscriptions", seg>> : seg \in Segments}

\* the queries of the routed requests: only user_id varies
EmptyQuery == [user_id |-> "", service_name |-> "", from_date |-> << >>,
               to_date |-> << >>]
RoutedQueries == {[EmptyQuery EXCEPT !.user_id = u] : u \in UserTexts}

\* router.ServeHTTP: the request goes to the handler of the first matching
\* route with its own context r.Context(). A request no route matches is
\* answered by the router itself and reaches no handler of this package.
ServeHTTP(ctx, method, path, query, body, newID) ==
    LET m == Match(RegisterRoutes, method, path)
    IN /\ m # None
       /\ CASE m[1] = "CreateSubscription" ->
                 CreateSubscription(ctx, body, newID, FirstInstant)
            [] m[1] = "GetTotalCost" -> GetTotalCost(ctx, query)
            [] m[1] = "GetSubscription" -> GetSubscription(ctx, path[2])
            [] m[1] = "UpdateSubscription" -> UpdateSubscription(ctx, path[2], body)
            [] m[1] = "DeleteSubscription" -> DeleteSubscription(ctx, path[2])
            [] m[1] = "ListSubscriptions" -> ListSubscriptions(ctx, query)

GET_request ==
    /\ resp = Idle
    /\ UNCHANGED <<proc, calls, base>>
    /\ \E ctx \in Contexts, path \in HTTPPaths, query \in RoutedQueries :
         ServeHTTP(ctx, "GET", path, query, None, ZeroUUID)

POST_request ==
    /\ resp = Idle
    /\ UNCHANGED <<proc, calls, base>>
    /\ \E ctx \in Contexts, path \in HTTPPaths, body \in Opt(SparseObjects),
          newID \in SubIDs :
         ServeHTTP(ctx, "POST", path, EmptyQuery, body, newID)

PUT_request ==
    /\ resp = Idle
    /\ UNCHANGED <<proc, calls, base>>
    /\ \E ctx \in Contexts, path \in HTTPPaths, body \in Opt(SparseObjects) :
         ServeHTTP(ctx, "PUT", path, EmptyQuery, body, ZeroUUID)

DELETE_request ==
    /\ resp = Idle
    /\ UNCHANGED <<proc, calls, base>>
    /\ \E ctx \in Contexts, path \in HTTPPaths :
         ServeHTTP(ctx, "DELETE", path, EmptyQuery, None, ZeroUUID)

NextHTTP ==
    \/ GET_request
    \/ POST_request
    \/ PUT_request
    \/ DELETE_request
    \/ Finish

\* the server behind its router, each request with a live or cancelled context
SpecHTTP == Init /\ [][NextHTTP]_vars

(* ------------------------ concurrent requests ------------------------- *)

\* the columns of the SET list of Update's statement
Columns == {"service_name", "price", "user_id", "start_date", "end_date"}

\* Update as two statements, each setting a part of the columns
UpdateStatements_two ==
    << {"service_name", "price"}, {"user_id", "start_date", "end_date"} >>

\* the statements Update sends, each by the columns it sets: one UPDATE that
\* sets the five columns
UpdateStatements == << Columns >>

\* two request bodies that differ in service_name and in user_id
ConcBodies ==
    {[ServiceName |-> p[1], Price |-> MaxPrice, UserID |-> p[2],
      StartDate |-> ZeroTime, EndDate |-> None] :
        p \in {<<"Yandex Plus", "60601fee-2bf1-4721-ae6f-7636e79a0cba">>,
               <<"yandex plus", "60601fee-2bf1-4721-ae6f-7636e79a0cbb">>}}

\* the writing requests: POST (id is the one uuid.New() returns), PUT
\* /subscriptions/{id} and DELETE /subscriptions/{id}
ConcRequests ==
    [op : {"create", "update"}, id : SubIDs, req : ConcBodies]
      \cup [op : {"delete"}, id : SubIDs, req : {None}]

\* the number of statements a request sends to the database
StatementCount(request) ==
    IF request.op = "update" THEN Len(UpdateStatements) ELSE 1

\* statement k of a request run on table db: PostgreSQL runs one statement
\* atomically on the rows as committed when it takes the row
ExecStatement(db, request, k) ==
    CASE request.op = "create" ->
           LET r == SvcCreateSubscription(Live, db, request.id, FirstInstant,
                                          request.req)
           IN [db |-> r.db, err |-> r.err]
      [] request.op = "delete" ->
           LET r == SvcDeleteSubscription(Live, db, request.id)
           IN [db |-> r.db, err |-> r.err]
      [] request.op = "update" ->
           LET r == SvcUpdateSubscription(Live, db,
                        [ID |-> request.id, ServiceName |-> request.req.ServiceName,
                         Price |-> request.req.Price, UserID |-> request.req.UserID,
                         StartDate |-> request.req.StartDate,
                         EndDate |-> request.req.EndDate])
           IN IF r.err # NoErr
              THEN [db |-> db, err |-> r.err]
              ELSE [db |-> [db EXCEPT ![request.id] =
                              [c \in DOMAIN db[request.id] |->
                                 IF c \in UpdateStatements[k]
                                 THEN r.db[request.id][c]
                                 ELSE db[request.id][c]]],
                    err |-> NoErr]

\* a request in its handler goroutine: n statements sent so far, the error
\* it got, and its turn: the place of its last statement among those of the
\* requests in flight with it (0 before)
Call(n, err, turn) == [n |-> n, err |-> err, turn |-> turn]

Complete(request) == calls[request].n = StatementCount(request)

\* the statements k, k+1, ... of a request sent one after another with no
\* other statement in between
RECURSIVE RunRequest(_, _, _)
RunRequest(db, request, k) ==
    IF k > StatementCount(request)
    THEN [db |-> db, err |-> NoErr]
    ELSE LET r == ExecStatement(db, request, k)
         IN IF r.err # NoErr THEN r ELSE RunRequest(r.db, request, k + 1)

\* the requests of order served one after another from table db: the table
\* left and the error of each
RECURSIVE Sequential(_, _)
Sequential(db, order) ==
    IF order = << >>
    THEN [db |-> db, errs |-> << >>]
    ELSE LET r == RunRequest(db, Head(order), 1)
             rest == Sequential(r.db, Tail(order))
         IN [db |-> rest.db, errs |-> <<r.err>> \o rest.errs]

\* the server starts a goroutine for a request while others are in theirs
Accept ==
    /\ Cardinality(DOMAIN calls) < MaxCalls
    /\ \E request \in ConcRequests \ DOMAIN calls :
         calls' = [q \in DOMAIN calls \cup {request} |->
                     IF q = request THEN Call(0, NoErr, 0) ELSE calls[q]]
    /\ UNCHANGED <<store, resp, gone, proc, base>>

\* the goroutine of one request sends its next statement and gets the answer;
\* an error ends the request
Execute ==
    \E request \in DOMAIN calls :
      /\ ~Complete(request)
      /\ LET r == ExecStatement(store, request, calls[request].n + 1)
             n == IF r.err # NoErr THEN StatementCount(request)
                  ELSE calls[request].n + 1
             turn == IF n = StatementCount(request)
                     THEN 1 + Cardinality({q \in DOMAIN calls : Complete(q)})
                     ELSE 0
         IN /\ store' = r.db
            /\ calls' = [calls EXCEPT ![request] = Call(n, r.err, turn)]
            /\ gone' = IF r.err # NoErr \/ n < StatementCount(request) THEN gone
                       ELSE IF request.op = "delete" THEN gone \cup {request.id}
                       ELSE IF request.op = "create" THEN gone \ {request.id}
                       ELSE gone
      /\ UNCHANGED <<resp, proc, base>>

\* every handler in flight has written its response and returned
Return ==
    /\ calls # NoCalls
    /\ \A request \in DOMAIN calls : Complete(request)
    /\ calls' = NoCalls
    /\ base' = store
    /\ UNCHANGED <<store, resp, gone, proc>>

NextConc ==
    \/ Accept
    \/ Execute
    \/ Return

\* the server with up to MaxCalls writing requests in flight at a time
SpecConc == Init /\ [][NextConc]_vars

(* ------------------------------- main --------------------------------- *)

\* the channels registered with signal.Notify: main makes the done channel
\* and registers it nowhere
Registered == {}

\* the positions of main at which the process has ended: returned from main,
\* os.Exit(1), or terminated by a signal
Ended == {"exited", "exit1", "killed"}

\* the process starts: main is about to call repository.New
Starting == Process("New", "new", "none")

InitMain ==
    /\ store = EmptyTable
    /\ resp = Idle
    /\ gone = {}
    /\ proc = Starting
    /\ calls = NoCalls
    /\ base = EmptyTable

\* one step of the main goroutine
main ==
    /\ UNCHANGED <<store, resp, gone, calls, base>>
    /\ \/ /\ proc.pc = "New"
          /\ \E ok \in BOOLEAN :
               proc' = IF ok
                       THEN [proc EXCEPT !.pc = "go", !.db = "open"]
                       ELSE [proc EXCEPT !.pc = "exit1"]
       \/ /\ proc.pc = "go"
          /\ proc' = [proc EXCEPT !.pc = "wait", !.srv = "starting"]
       \/ /\ proc.pc \in {"wait", "Shutdown", "return"}
          /\ proc.pc = "wait" => proc.done # << >>
          /\ proc' =
               CASE proc.pc = "wait" ->
                      [proc EXCEPT !.pc = "Shutdown", !.done = Tail(proc.done)]
                 [] proc.pc = "Shutdown" ->
                      [proc EXCEPT !.pc = "return", !.srv = "shutdown"]
                 [] proc.pc = "return" ->
                      [proc EXCEPT !.pc = "exited", !.db = "closed"]

\* the goroutine of line 85: srv.ListenAndServe binds the address and serves,
\* or fails and logs
ListenAndServe ==
    /\ proc.pc \notin Ended
    /\ proc.srv = "starting"
    /\ \E ok \in BOOLEAN :
         proc' = [proc EXCEPT !.srv = IF ok THEN "listening" ELSE "failed"]
    /\ UNCHANGED <<store, resp, gone, calls, base>>

\* SIGINT or SIGTERM is delivered to the process: the Go runtime relays it to
\* the channels registered for it (a send that is dropped when the buffer of
\* 1 is full) and, when none is registered, ends the process at once, with no
\* deferred call run
Signal ==
    /\ proc.pc \notin Ended
    /\ proc' =
         IF "done" \in Registered
         THEN [proc EXCEPT !.signal = Some(proc.srv),
                           !.done = IF proc.done = << >> THEN <<"SIGTERM">>
                                    ELSE proc.done]
         ELSE [proc EXCEPT !.signal = Some(proc.srv), !.pc = "killed"]
    /\ UNCHANGED <<store, resp, gone, calls, base>>

\* the server accepts requests while the process lives and the server listens
Serving == proc.pc \notin Ended /\ proc.srv = "listening"

NextMain ==
    \/ main
    \/ ListenAndServe
    \/ Signal
    \/ Serving /\ GET_request
    \/ Serving /\ POST_request
    \/ Serving /\ PUT_request
    \/ Serving /\ DELETE_request
    \/ Serving /\ Finish

\* the process from its start to its end
SpecMain == InitMain /\ [][NextMain]_vars

(* =========================== properties =============================== *)

\* the ids of the rows present
Present == DOMAIN store

RECURSIVE SumOfPrice(_)
\* the sum of Price over a set of records
SumOfPrice(subs) ==
    IF subs = {} THEN 0
    ELSE LET x == CHOOSE y \in subs : TRUE
         IN x.Price + SumOfPrice(subs \ {x})

\* the four clauses of the filter contract, on a stored record
OwnerClause(r, f) == f.UserID # None => r.UserID = f.UserID[1]
ServiceClause(r, f) == f.ServiceName # None => r.ServiceName = f.ServiceName[1]
RangeStartClause(r, f) == f.FromDate # None => r.StartDate >= f.FromDate[1]
RangeEndClause(r, f) ==
    (f.ToDate # None /\ r.EndDate # None) => r.EndDate[1] <= f.ToDate[1]
Matches(r, f) ==
    /\ OwnerClause(r, f)
    /\ ServiceClause(r, f)
    /\ RangeStartClause(r, f)
    /\ RangeEndClause(r, f)

\* the stored records, as getByID returns them
Stored == {RepoGetByID(Background, store, i).sub[1] : i \in Present}

\* C1: for every filter, list returns exactly the stored records for which
\* all four clauses hold: none omitted, none added.
C1_ListReturnsExactlyMatches ==
    resp.op = "list"
        => /\ resp.status = StatusOK
           /\ resp.subs = {r \in Stored : Matches(r, resp.filter[1])}

\* a list request with all four dimensions set has returned one of two stored
\* records
C1_Witness ==
    /\ resp.op = "list"
    /\ resp.filter[1].UserID # None
    /\ resp.filter[1].ServiceName # None
    /\ resp.filter[1].FromDate # None
    /\ resp.filter[1].ToDate # None
    /\ Cardinality(resp.subs) = 1
    /\ Cardinality(Stored) = 2

\* C2: in every reachable store state and for every filter, totalCost equals
\* the sum of price over the records list returns on that state.
C2_TotalEqualsSumOfList ==
    /\ resp.op = "total"
         => /\ resp.status = StatusOK
            /\ resp.total
                 = SumOfPrice(SvcListSubscriptions(Background, store, resp.filter[1]).subs)
    /\ resp.op = "list"
         => SvcGetTotalCost(Background, store, resp.filter[1]).total = SumOfPrice(resp.subs)

\* a total-cost request has summed one of two stored records
C2_Witness ==
    /\ resp.op = "total"
    /\ Cardinality(Stored) = 2
    /\ resp.total > 0
    /\ resp.total < SumOfPrice(Stored)

\* the table restricted to the open rows (end_date absent)
OpenRows(db) == [i \in {j \in DOMAIN db : db[j].end_date = None} |-> db[i]]

\* the open stored records that satisfy the owner, service and range-start
\* clauses
OpenMatching(f) ==
    {r \in Stored : /\ r.EndDate = None
                    /\ OwnerClause(r, f)
                    /\ ServiceClause(r, f)
                    /\ RangeStartClause(r, f)}

\* C3: for a record with end_date absent the range-end clause holds whatever
\* to_date is: whether an open record is listed, or counted in the total,
\* depends on the owner, service and range-start clauses only.
C3_OpenRecordIgnoresToDate ==
    /\ resp.op = "list"
         => {r \in resp.subs : r.EndDate = None} = OpenMatching(resp.filter[1])
    /\ resp.op = "total"
         => SvcGetTotalCost(Background, OpenRows(store), resp.filter[1]).total
              = SumOfPrice(OpenMatching(resp.filter[1]))

\* an open record that starts after to_date = 0 is listed under that to_date
C3_Witness ==
    /\ resp.op = "list"
    /\ resp.filter[1].ToDate = Some(0)
    /\ \E r \in resp.subs : r.EndDate = None /\ r.StartDate > 0

\* C4: GET /subscriptions/{id} with a well-formed id that addresses no stored
\* record responds 404 "subscription not found".
C4_GetAbsentIs404 ==
    (resp.op = "get" /\ resp.id # None /\ resp.id[1] \notin Present)
        => (resp.status = StatusNotFound
              /\ resp.error = <<"subscription not found">>)

\* C5: PUT /subscriptions/{id} with a well-formed id that addresses no stored
\* record responds 404.
C5_UpdateAbsentIs404 ==
    (resp.op = "update" /\ resp.id # None /\ resp.price # None
        /\ resp.id[1] \notin Present)
        => resp.status = StatusNotFound

\* C6: a delete of an existing id succeeds and removes the record; a delete of
\* an id deleted before and not created since responds 404.
C6_SecondDeleteIs404 ==
    [][ (resp'.op = "delete" /\ resp'.id # None)
          => /\ (resp'.id[1] \in Present
                   => /\ resp'.status = StatusNoContent
                      /\ resp'.id[1] \notin DOMAIN store'
                      /\ SvcGetSubscription(Background, store', resp'.id[1]).err # NoErr)
             /\ (resp'.id[1] \in gone => resp'.status = StatusNotFound) ]_vars

\* C7: an update addressed to an id with no stored record changes nothing.
C7_UpdateAbsentChangesNothing ==
    [][ (resp'.op = "update" /\ resp'.id # None /\ resp'.price # None
           /\ resp'.id[1] \notin Present)
          => store' = store ]_vars

\* an update of an absent id has been refused while another record is stored
C7_Witness ==
    /\ resp.op = "update"
    /\ resp.id # None
    /\ resp.price # None
    /\ resp.price[1] > 0
    /\ resp.id[1] \notin Present
    /\ Present # {}

\* C8: every stored record has price > 0, and a create or an update carrying
\* price <= 0 fails and leaves the store unchanged.
C8_PriceAlwaysPositive ==
    /\ [](\A r \in Stored : r.Price > 0)
    /\ [][ (resp'.op \in {"create", "update"} /\ resp'.price # None
              /\ resp'.price[1] <= 0)
             => (resp'.status >= StatusBadRequest /\ resp'.sub = None
                   /\ store' = store) ]_vars

\* an update carrying price 0 has been refused for a stored record
C8_Witness ==
    /\ resp.op = "update"
    /\ resp.id # None
    /\ resp.id[1] \in Present
    /\ resp.price = Some(0)
    /\ resp.status >= StatusBadRequest

\* C9: a create with price <= 0 is answered with a client error (4xx) and no
\* record is persisted.
C9_CreateBadPriceIs4xx ==
    (resp.op = "create" /\ resp.price # None /\ resp.price[1] <= 0)
        => (resp.status >= 400 /\ resp.status <= 499)

\* the fields of a record other than its id
Fields(sub) ==
    [ServiceName |-> sub.ServiceName, Price |-> sub.Price, UserID |-> sub.UserID,
     StartDate |-> sub.StartDate, EndDate |-> sub.EndDate]

\* C10 as stated: after a successful create that returned id i, getByID(i)
\* returns the command's service_name, price, user_id, start_date and end_date.
C10_RoundTripExact ==
    (resp.op = "create" /\ resp.status = StatusCreated)
        => LET g == SvcGetSubscription(Background, store, resp.sub[1].ID)
           IN /\ g.err = NoErr
              /\ Fields(g.sub[1]) = Fields(resp.sub[1])

\* C10 amended: getByID(i) returns the command's service_name, price and
\* user_id, and its start_date and end_date cut to the calendar day (midnight
\* of that day); end_date is absent exactly when the command's was.
C10_RoundTripToTheDay ==
    (resp.op = "create" /\ resp.status = StatusCreated)
        => LET g == SvcGetSubscription(Background, store, resp.sub[1].ID)
               cmd == resp.sub[1]
           IN /\ g.err = NoErr
              /\ g.sub[1].ID = cmd.ID
              /\ g.sub[1].ServiceName = cmd.ServiceName
              /\ g.sub[1].Price = cmd.Price
              /\ g.sub[1].UserID = cmd.UserID
              /\ g.sub[1].StartDate = cmd.StartDate - (cmd.StartDate % 2)
              /\ (g.sub[1].EndDate = None) = (cmd.EndDate = None)
              /\ cmd.EndDate # None =>
                   g.sub[1].EndDate[1] = cmd.EndDate[1] - (cmd.EndDate[1] % 2)

\* a create whose start_date and end_date are not at midnight has succeeded
C10_Witness ==
    /\ resp.op = "create"
    /\ resp.status = StatusCreated
    /\ resp.sub[1].StartDate % 2 = 1
    /\ resp.sub[1].EndDate # None
    /\ resp.sub[1].EndDate[1] % 2 = 1

\* the filters that are f with one dimension, unset in f, set
OneMore(f) ==
    (IF f.UserID # None THEN {}
     ELSE {[f EXCEPT !.UserID = Some(u)] : u \in UserIDs})
    \cup (IF f.ServiceName # None THEN {}
          ELSE {[f EXCEPT !.ServiceName = Some(n)] : n \in ServiceNames})
    \cup (IF f.FromDate # None THEN {}
          ELSE {[f EXCEPT !.FromDate = Some(t)] : t \in Times})
    \cup (IF f.ToDate # None THEN {}
          ELSE {[f EXCEPT !.ToDate = Some(t)] : t \in Times})

\* C11: for every store state and every filter f, a filter that sets one more
\* dimension than f lists a subset of what f lists.
C11_OneMoreDimensionListsSubset ==
    resp.op = "list"
        => \A g \in OneMore(resp.filter[1]) :
             SvcListSubscriptions(Background, store, g).subs \subseteq resp.subs

\* a list with the owner unset has returned two records, and setting the owner
\* leaves exactly one of them
C11_Witness ==
    /\ resp.op = "list"
    /\ resp.filter[1].UserID = None
    /\ Cardinality(resp.subs) = 2
    /\ \E g \in OneMore(resp.filter[1]) :
         /\ g.UserID # None
         /\ Cardinality(SvcListSubscriptions(Background, store, g).subs) = 1

\* C12: totalCost with a filter that matches no stored record (the empty store
\* included) answers the integer 0 with no error.
C12_NoMatchTotalIsZero ==
    (resp.op = "total" /\ {r \in Stored : Matches(r, resp.filter[1])} = {})
        => /\ resp.status = StatusOK
           /\ resp.total = 0
           /\ resp.error = NoErr

\* a total over a non-empty store with a filter that matches nothing
C12_Witness ==
    /\ resp.op = "total"
    /\ Stored # {}
    /\ {r \in Stored : Matches(r, resp.filter[1])} = {}
    /\ resp.total = 0

\* C13: a list or total-cost request whose user_id value is not a valid
\* identifier is answered with a client error (4xx) and reads nothing from
\* the store.
C13_MalformedOwnerIsClientError ==
    [][ \A q \in {x \in Queries : x.user_id = MalformedID} :
          (resp = Idle /\ (ListSubscriptions(Live, q) \/ GetTotalCost(Live, q)))
              => /\ resp'.status >= 400
                 /\ resp'.status <= 499
                 /\ resp'.subs = {}
                 /\ resp'.total = 0 ]_vars

\* a PUT has just been answered 200
UpdateDone == resp'.op = "update" /\ resp'.status = StatusOK

\* the updated record existed and keeps its id and created_at; no record is
\* added or removed and every other row is as it was
KeepsIdentityAndOthers ==
    LET i == resp'.id[1]
    IN /\ i \in DOMAIN store
       /\ DOMAIN store' = DOMAIN store
       /\ store'[i].id = store[i].id
       /\ store'[i].created_at = store[i].created_at
       /\ \A j \in DOMAIN store \ {i} : store'[j] = store[j]

\* after a successful update from a body without service_name, user_id,
\* start_date and end_date, getByID returns the zero values and no end_date,
\* whatever the record held before
OmittedAreZero ==
    \A path \in SubIDs, obj \in SparseObjects :
        (resp = Idle /\ UpdateSubscription(Live, path, Some(obj)))
            => LET g == SvcGetSubscription(Background, store', path).sub[1]
               IN /\ g.ServiceName = ""
                  /\ g.UserID = ZeroUUID
                  /\ g.StartDate = ZeroTime
                  /\ g.EndDate = None
                  /\ obj.price # None => g.Price = obj.price[1]

\* C14 as stated: after a successful update(cmd) of id i, getByID(i) returns
\* exactly cmd's service_name, price, user_id, start_date and end_date (zero
\* or absent for a field the body omits); id, created_at and every other
\* record are unchanged.
C14_UpdateReplacesExactly ==
    [][ UpdateDone
          => /\ KeepsIdentityAndOthers
             /\ OmittedAreZero
             /\ LET g == SvcGetSubscription(Background, store', resp'.id[1])
                IN /\ g.err = NoErr
                   /\ g.sub[1].ID = resp'.id[1]
                   /\ Fields(g.sub[1]) = Fields(resp'.sub[1]) ]_vars

\* C14 amended: the same, with start_date and end_date returned cut to the
\* calendar day (midnight of that day).
C14_UpdateReplacesToTheDay ==
    [][ UpdateDone
          => /\ KeepsIdentityAndOthers
             /\ OmittedAreZero
             /\ LET g == SvcGetSubscription(Background, store', resp'.id[1])
                    cmd == resp'.sub[1]
                IN /\ g.err = NoErr
                   /\ g.sub[1].ID = resp'.id[1]
                   /\ g.sub[1].ServiceName = cmd.ServiceName
                   /\ g.sub[1].Price = cmd.Price
                   /\ g.sub[1].UserID = cmd.UserID
                   /\ g.sub[1].StartDate = cmd.StartDate - (cmd.StartDate % 2)
                   /\ (g.sub[1].EndDate = None) = (cmd.EndDate = None)
                   /\ cmd.EndDate # None =>
                        g.sub[1].EndDate[1]
                            = cmd.EndDate[1] - (cmd.EndDate[1] % 2) ]_vars

\* a record created at the second instant has been updated from a body that
\* omits service_name, while another record, created at the first instant,
\* has a name
C14_Witness ==
    /\ resp.op = "update"
    /\ resp.status = StatusOK
    /\ resp.sub[1].ServiceName = ""
    /\ store[resp.id[1]].created_at # FirstInstant
    /\ \E j \in Present \ {resp.id[1]} :
         /\ store[j].created_at = FirstInstant
         /\ store[j].service_name = "Yandex Plus"

\* C15: no two stored records share an id; a create whose id is already
\* stored fails and leaves the store unchanged; a successful create returns an
\* id no stored record had, and adds that record only.
C15_IdsUnique ==
    /\ [](/\ \A i \in DOMAIN store : store[i].id = i
          /\ Cardinality(RowsOf(store)) = Cardinality(DOMAIN store)
          /\ Cardinality({r.ID : r \in Stored}) = Cardinality(Stored))
    /\ [][ (resp'.op = "create" /\ resp'.id # None)
             => /\ resp'.id[1] \in DOMAIN store
                    => /\ resp'.status >= StatusBadRequest
                       /\ resp'.sub = None
                       /\ store' = store
                /\ resp'.status = StatusCreated
                    => /\ resp'.sub[1].ID = resp'.id[1]
                       /\ resp'.sub[1].ID \notin DOMAIN store
                       /\ DOMAIN store' = DOMAIN store \cup {resp'.sub[1].ID}
                       /\ \A j \in DOMAIN store : store'[j] = store[j] ]_vars

\* a create with a valid body has been refused because uuid.New() returned
\* the id of a stored record, while the other id is free
C15_Witness ==
    /\ resp.op = "create"
    /\ resp.id # None
    /\ resp.id[1] \in Present
    /\ resp.price # None
    /\ resp.price[1] > 0
    /\ ErrorsIs(resp.error, ErrUniqueViolation)
    /\ Cardinality(Present) = 1

\* the response to a malformed input: 400 and {"error": message}, no record,
\* and the store as it was
Rejected(message) ==
    /\ resp'.status = StatusBadRequest
    /\ resp'.error = <<message>>
    /\ resp'.sub = None
    /\ store' = store

\* C16: a request with a malformed path id (GET, PUT, DELETE) or a malformed
\* JSON body (POST, PUT) is answered 400 with an error object, and neither the
\* service nor the store is called: the response is the same on every store and
\* the store is unchanged.
C16_MalformedInputIs400 ==
    [][ resp = Idle
          => /\ (resp'.op = "get" /\ GetSubscription(Live, MalformedID))
                  => Rejected("invalid subscription ID")
             /\ (resp'.op = "delete" /\ DeleteSubscription(Live, MalformedID))
                  => Rejected("invalid subscription ID")
             /\ (resp'.op = "update"
                   /\ \E body \in Opt(SparseObjects) :
                        UpdateSubscription(Live, MalformedID, body))
                  => Rejected("invalid subscription ID")
             /\ (resp'.op = "update"
                   /\ \E path \in SubIDs : UpdateSubscription(Live, path, None))
                  => Rejected("invalid request payload")
             /\ (resp'.op = "create"
                   /\ \E newID \in SubIDs :
                        CreateSubscription(Live, None, newID, FirstInstant))
                  => Rejected("invalid request payload") ]_vars

\* a PUT addressed to a stored record has been refused for its body
C16_Witness ==
    /\ resp.op = "update"
    /\ resp.id # None
    /\ resp.id[1] \in Present
    /\ resp.status = StatusBadRequest
    /\ resp.error = <<"invalid request payload">>

\* C17: list with a filter that matches no record returns an empty sequence
\* and no error, and GET /subscriptions responds 200 with a JSON array (an
\* empty array, not null).
C17_EmptyListIsArray ==
    (resp.op = "list" /\ {r \in Stored : Matches(r, resp.filter[1])} = {})
        => /\ resp.status = StatusOK
           /\ resp.error = NoErr
           /\ resp.subs = {}
           /\ ~resp.null

\* the filter with all four dimensions unset
AllUnset ==
    [UserID |-> None, ServiceName |-> None, FromDate |-> None, ToDate |-> None]

\* C18: with all four dimensions unset, list returns exactly the stored
\* records and totalCost is the sum of the prices of all stored records.
C18_UnfilteredIsEverything ==
    /\ (resp.op = "list" /\ resp.filter[1] = AllUnset)
         => (resp.status = StatusOK /\ resp.subs = Stored)
    /\ (resp.op = "total" /\ resp.filter[1] = AllUnset)
         => (resp.status = StatusOK /\ resp.total = SumOfPrice(Stored))

\* an unfiltered total over two stored records, one of them closed
C18_Witness ==
    /\ resp.op = "total"
    /\ resp.filter[1] = AllUnset
    /\ Cardinality(Stored) = 2
    /\ \E r \in Stored : r.EndDate # None
    /\ resp.total = 2

\* Scenario B: the owner U, to_date 2025-01-01 as midnight of day 0 and
\* end_date 2025-06-01 as midnight of the later day 1; exactly two records
\* are stored, both of U, one open and one that ends on the later day, and a
\* list with {user_id: U, to_date} has been answered
ScenarioB ==
    LET U == "60601fee-2bf1-4721-ae6f-7636e79a0cba"
    IN /\ resp.op = "list"
       /\ resp.filter[1] = [UserID |-> Some(U), ServiceName |-> None,
                            FromDate |-> None, ToDate |-> Some(0)]
       /\ Cardinality(Stored) = 2
       /\ \A r \in Stored : r.UserID = U
       /\ \E r \in Stored : r.EndDate = None
       /\ \E r \in Stored : r.EndDate = Some(2)

\* C19 as stated: in scenario B the list includes both records.
C19_ScenarioBListsBoth ==
    ScenarioB => \A r \in Stored : r \in resp.subs

\* C19 amended: in scenario B the list includes the open record and not the
\* one that ends after to_date.
C19_ScenarioBListsOpenOnly ==
    ScenarioB => resp.subs = {r \in Stored : r.EndDate = None}

\* scenario B has been served and one record was listed
C19_Witness ==
    /\ ScenarioB
    /\ Cardinality(resp.subs) = 1

\* the sample bodies that carry an "id" key
ObjectsWithID == {obj \in SparseObjects : obj.id # None}

\* an "id" key in the body makes no difference to what a PUT does: the step
\* is also the step of the same request without the key
BodyIDIgnored ==
    \A obj \in ObjectsWithID :
        (resp = Idle /\ UpdateSubscription(Live, resp'.id[1], Some(obj)))
            => UpdateSubscription(Live, resp'.id[1], Some([obj EXCEPT !.id = None]))

\* C20: a PUT that reaches the service acts on the record named by the path id
\* only: no other row changes, no row is added or removed, the row keeps its
\* id, the returned record carries the path id, a stored record addressed with
\* a valid price is updated, and an "id" key in the body changes none of this.
C20_UpdateTargetsPathID ==
    [][ (resp'.op = "update" /\ resp'.id # None /\ resp'.price # None)
          => LET i == resp'.id[1]
             IN /\ DOMAIN store' = DOMAIN store
                /\ \A j \in DOMAIN store \ {i} : store'[j] = store[j]
                /\ i \in DOMAIN store' => store'[i].id = i
                /\ resp'.status = StatusOK => resp'.sub[1].ID = i
                /\ (i \in DOMAIN store /\ resp'.price[1] > 0)
                     => /\ resp'.status = StatusOK
                        /\ store'[i] = UpdatedRow(store[i], resp'.sub[1])
                /\ BodyIDIgnored ]_vars

\* a PUT has replaced one of two stored records by the zero values of a
\* sparse body
C20_Witness ==
    /\ resp.op = "update"
    /\ resp.status = StatusOK
    /\ Cardinality(Present) = 2
    /\ store[resp.id[1]].service_name = ""
    /\ \E j \in Present \ {resp.id[1]} : store[j].service_name # ""

\* C26: with the routes of RegisterRoutes, GET /subscriptions/total is served by
\* the total-cost handler and never by get-by-id (which would answer 400
\* "invalid subscription ID" for the id "total"); GET /subscriptions/<segment>
\* with any other segment is served by get-by-id.
C26_TotalRouteFirst ==
    [][ \A ctx \in Contexts, seg \in Segments, query \in RoutedQueries :
          ServeHTTP(ctx, "GET", <<"subscriptions", seg>>, query, None, ZeroUUID)
            => IF seg = TotalSegment
               THEN /\ resp'.op = "total"
                    /\ resp'.error # <<"invalid subscription ID">>
               ELSE resp'.op = "get" ]_vars

\* a total has been served through the router over a non-empty table
C26_Witness ==
    /\ resp.op = "total"
    /\ resp.status = StatusOK
    /\ resp.total > 0

\* the requests the operations layer is called with: decoded sparse bodies
CreateRequests == {Decode(obj) : obj \in SparseObjects}
UpdateRequests ==
    {SetID(DecodeUpdate(obj), i) : obj \in SparseObjects, i \in SubIDs}

\* s, returned by the operations layer for the store's answer r, passes a
\* store error on: s.err is a new message in front of the whole chain of r.err,
\* so errors.Is finds in s.err every error it finds in r.err; and s.err is nil
\* exactly when r.err is
PassesOn(r, s, message) ==
    /\ (r.err = NoErr) = (s.err = NoErr)
    /\ r.err # NoErr =>
         /\ s.err[1] = message
         /\ \A k \in DOMAIN r.err : ErrorsIs(s.err, r.err[k])
         /\ Len(s.err) = Len(r.err) + 1

\* C21: each of the six operations of the service answers a store error e with
\* no result (no record, the nil list, total 0) and an error that puts the
\* operation's message in front of e and keeps e in its chain (errors.Is(err,
\* e) holds); a store error never becomes success or an error of another kind.
C21_StoreErrorsPassThrough ==
    \A ctx \in Contexts :
      /\ \A id \in SubIDs, req \in CreateRequests :
           LET sub == Subscription(id, req.ServiceName, req.Price, req.UserID,
                                   req.StartDate, req.EndDate)
               r == RepoCreate(ctx, store, sub, FirstInstant)
               s == SvcCreateSubscription(ctx, store, id, FirstInstant, req)
           IN /\ PassesOn(r, s, "failed to create subscription")
              /\ r.err # NoErr => s.sub = None
      /\ \A req \in UpdateRequests :
           LET sub == Subscription(req.ID, req.ServiceName, req.Price, req.UserID,
                                   req.StartDate, req.EndDate)
               r == RepoUpdate(ctx, store, sub)
               s == SvcUpdateSubscription(ctx, store, req)
           IN /\ PassesOn(r, s, "failed to update subscription")
              /\ r.err # NoErr => s.sub = None
      /\ \A id \in SubIDs :
           LET r == RepoGetByID(ctx, store, id)
               s == SvcGetSubscription(ctx, store, id)
           IN /\ PassesOn(r, s, "failed to get subscription")
              /\ r.err # NoErr => s.sub = None
              /\ \A e \in {ErrNoRows, ErrCanceled} :
                   ErrorsIs(r.err, e) => ErrorsIs(s.err, e)
      /\ \A id \in SubIDs :
           LET r == RepoDelete(ctx, store, id)
               s == SvcDeleteSubscription(ctx, store, id)
           IN PassesOn(r, s, "failed to delete subscription")
      /\ \A query \in RoutedQueries :
           LET r == RepoList(ctx, store, QueryFilter(query))
               s == SvcListSubscriptions(ctx, store, QueryFilter(query))
           IN /\ PassesOn(r, s, "failed to list subscriptions")
              /\ r.err # NoErr => (s.subs = {} /\ s.isNil)
      /\ \A query \in RoutedQueries :
           LET r == RepoGetTotalCost(ctx, store, QueryFilter(query))
               s == SvcGetTotalCost(ctx, store, QueryFilter(query))
           IN /\ PassesOn(r, s, "failed to calculate total cost")
              /\ r.err # NoErr => s.total = 0

\* a lookup of a missing id has been answered with the service's error: the
\* store's sql.ErrNoRows is in its chain behind the service's message
C21_Witness ==
    /\ resp.op = "get"
    /\ resp.id # None
    /\ store # EmptyTable
    /\ resp.error # NoErr
    /\ resp.error[1] = "failed to get subscription"
    /\ ErrorsIs(resp.error, ErrNoRows)
    /\ RepoGetByID(Live, store, resp.id[1]).err # NoErr

\* C25: every storage call of a request runs under the request's context: a
\* request whose context is cancelled and whose handler reaches the store has
\* its storage call aborted, which leaves the table as it was and answers 500
\* with the context's error; no handler's storage call goes on without it.
C25_CancelAbortsStorageCall ==
    [][ /\ \A path \in HTTPPaths, query \in RoutedQueries :
             ServeHTTP(Canceled, "GET", path, query, None, ZeroUUID)
               => (resp'.status # StatusBadRequest
                     => /\ resp'.status = StatusInternalServerError
                        /\ ErrorsIs(resp'.error, ErrCanceled))
        /\ \A path \in HTTPPaths, body \in Opt(SparseObjects), newID \in SubIDs :
             ServeHTTP(Canceled, "POST", path, EmptyQuery, body, newID)
               => (resp'.status # StatusBadRequest
                     => /\ resp'.status = StatusInternalServerError
                        /\ ErrorsIs(resp'.error, ErrCanceled)
                        /\ store' = store)
        /\ \A path \in HTTPPaths, body \in Opt(SparseObjects) :
             ServeHTTP(Canceled, "PUT", path, EmptyQuery, body, ZeroUUID)
               => (resp'.status # StatusBadRequest
                     => /\ resp'.status = StatusInternalServerError
                        /\ ErrorsIs(resp'.error, ErrCanceled)
                        /\ store' = store)
        /\ \A path \in HTTPPaths :
             ServeHTTP(Canceled, "DELETE", path, EmptyQuery, None, ZeroUUID)
               => (resp'.status # StatusBadRequest
                     => /\ resp'.status = StatusInternalServerError
                        /\ ErrorsIs(resp'.error, ErrCanceled)
                        /\ store' = store) ]_vars

\* a delete of a stored record was cancelled: the record is still there
C25_Witness ==
    /\ resp.op = "delete"
    /\ resp.status = StatusInternalServerError
    /\ ErrorsIs(resp.error, ErrCanceled)
    /\ resp.id[1] \in DOMAIN store

\* C24: a process that received a termination signal while its server was
\* listening (main waiting at line 92) ends only after its shutdown hook has
\* run: the server shut down and the database handle closed.
C24_SignalRunsShutdownHook ==
    (proc.signal = Some("listening") /\ proc.pc \in Ended)
      => (proc.srv = "shutdown" /\ proc.db = "closed")

\* the orders in which the requests of S can be served one after another
Orders(S) ==
    {o \in [1..Cardinality(S) -> S] :
       \A j, k \in 1..Cardinality(S) : o[j] = o[k] => j = k}

\* no request in flight is between two of its statements
Quiescent == \A q \in DOMAIN calls : calls[q].n \in {0, StatementCount(q)}

\* the requests in flight that have had their answer from the database
Answered == {q \in DOMAIN calls : calls[q].n > 0}
AnsweredOn(i) == {q \in Answered : q.id = i}

RowAt(db, i) == IF i \in DOMAIN db THEN Some(db[i]) ELSE None

\* serving order one after another from base gives every request of the
\* order the error it got in flight
SameErrors(order) ==
    \A k \in DOMAIN order : Sequential(base, order).errs[k] = calls[order[k]].err

\* C22: for the requests in flight that address one id, whatever the
\* interleaving of their statements, the row left under this id and the error
\* of each request are those of serving these requests one after another in
\* some order; and at every moment each stored row holds the fields of a single
\* request, never fields of two.
C22_SameIdSomeSequentialOrder ==
    /\ \A i \in SubIDs :
         Quiescent =>
           \E order \in Orders(AnsweredOn(i)) :
             /\ RowAt(Sequential(base, order).db, i) = RowAt(store, i)
             /\ SameErrors(order)
    /\ \A i \in DOMAIN store : Fields(Scan(store[i])) \in ConcBodies

\* an update and a delete of a stored record were in flight together; the
\* delete was answered first and the update found no row
C22_Witness ==
    \E u, d \in DOMAIN calls :
      /\ u.op = "update" /\ d.op = "delete" /\ u.id = d.id
      /\ u.id \in DOMAIN base
      /\ calls[d].turn > 0 /\ calls[u].turn > calls[d].turn
      /\ calls[d].err = NoErr
      /\ calls[u].err # NoErr

\* C23: when the requests in flight address pairwise different ids, each has
\* the outcome it has when served alone, and the table left is the one left by
\* serving them one after another in any order.
C23_DifferentIdsIndependent ==
    (/\ Quiescent
     /\ \A q, r \in Answered : q # r => q.id # r.id)
      => /\ \A q \in Answered : calls[q].err = RunRequest(base, q, 1).err
         /\ \A order \in Orders(Answered) :
              /\ Sequential(base, order).db = store
              /\ SameErrors(order)

\* an update of one stored record and a delete of another were in flight
\* together and both succeeded
C23_Witness ==
    \E u, d \in DOMAIN calls :
      /\ u.op = "update" /\ d.op = "delete" /\ u.id # d.id
      /\ Cardinality(DOMAIN calls) = 2
      /\ calls[u].turn > 0 /\ calls[d].turn > 0
      /\ calls[u].err = NoErr /\ calls[d].err = NoErr
      /\ store # base

====
